---- MODULE Spec2Model ----
(***************************************************************************)
(* Model of collect.ts, the batch job that walks the v0.* tags of the      *)
(* gemini-cli checkout, copies two source files per tag into the tracking  *)
(* repository and records each tag in one commit.                          *)
(*                                                                         *)
(* A tag is the pair <<major, minor>> (the string "v<major>.<minor>").     *)
(* A file content is a string, "absent" when the path does not exist.      *)
(* Every external command (git, fs) may fail; a failure is an input of the *)
(* environment and is counted in faults.                                   *)
(***************************************************************************)
EXTENDS Integers, Sequences, FiniteSets, TLC

VARIABLES
    gemini,             \* the gemini-cli repository: tag list, tree per tag, tree of main
    extPos,             \* checkout position of the gemini-cli working tree
    history,            \* commits of the tracking repository, oldest first
    index,              \* staging area of the tracking repository
    wt,                 \* working tree of the tracking repository (destination files)
    pc,                 \* position of main()
    startFromVersion,   \* main: parsed --start-from value
    limit,              \* main: parsed --limit value
    allTags,            \* main: result of getAllTags()
    tags,               \* main: the list the per-tag loop walks
    i,                  \* main: loop index (1-based)
    extracted,          \* main: labels extractSources reported as copied
    missing,            \* main: labels extractSources reported as missing
    console,            \* last line written to the console
    exitCode,           \* process exit code of the last finished run
    returnCalls,        \* calls of returnToMain() in the current run
    runs,               \* runs started so far
    faults              \* external commands that have failed so far

vars == <<gemini, extPos, history, index, wt, pc, startFromVersion, limit, allTags,
          tags, i, extracted, missing, console, exitCode, returnCalls, runs, faults>>

----------------------------------------------------------------------------
(* Bounds of the model *)

MaxRuns == 2

MaxFaults == 2

----------------------------------------------------------------------------
(* Configuration data *)

SOURCE_FILES ==
    << [sourcePath |-> "packages/core/src/core/prompts.ts",
        targetPath |-> "prompts/prompts.ts",
        name       |-> "Core prompts"],
       [sourcePath |-> "packages/core/src/tools/tool-registry.ts",
        targetPath |-> "tools/tool-registry.ts",
        name       |-> "Tool registry"] >>

SourcePaths == { SOURCE_FILES[k].sourcePath : k \in 1..Len(SOURCE_FILES) }

TargetPaths == { SOURCE_FILES[k].targetPath : k \in 1..Len(SOURCE_FILES) }

Range(s) == { s[k] : k \in 1..Len(s) }

----------------------------------------------------------------------------
(* The gemini-cli repository the job samples *)

SourceTree(prompts, registry) ==
    [p \in SourcePaths |->
        IF p = "packages/core/src/core/prompts.ts" THEN prompts ELSE registry]

\* `git tag --sort=creatordate`: every tag of the repository, oldest first
RepoTagList == << <<0, 1>>, <<0, 2>>, <<1, 0>>, <<0, 3>> >>

\* a repository whose prompt file changes from release to release
EvolvingRepo ==
    [ tagList |-> RepoTagList,
      at      |-> [t \in Range(RepoTagList) |->
                     CASE t = <<0, 1>> -> SourceTree("absent", "absent")
                       [] t = <<0, 2>> -> SourceTree("p1", "r1")
                       [] t = <<0, 3>> -> SourceTree("p2", "r1")
                       [] OTHER        -> SourceTree("p3", "r1")],
      main    |-> SourceTree("p3", "r1") ]

\* a repository that drops the prompt file after its first release
ShrinkingRepo ==
    [ tagList |-> RepoTagList,
      at      |-> [t \in Range(RepoTagList) |->
                     CASE t = <<0, 1>> -> SourceTree("p1", "absent")
                       [] t = <<0, 2>> -> SourceTree("absent", "r1")
                       [] t = <<0, 3>> -> SourceTree("absent", "r1")
                       [] OTHER        -> SourceTree("absent", "r2")],
      main    |-> SourceTree("absent", "r2") ]

GeminiRepos == { EvolvingRepo, ShrinkingRepo }

Main == [detached |-> FALSE, at |-> <<>>]

Detached(tag) == [detached |-> TRUE, at |-> tag]

\* the files under GEMINI_REPO_PATH at checkout position pos
CheckedOutTree(pos) == IF pos.detached THEN gemini.at[pos.at] ELSE gemini.main

----------------------------------------------------------------------------
(* The tracking repository *)

EmptyTree == [p \in TargetPaths |-> "absent"]

\* tree of the last commit
HeadTree == IF history = <<>> THEN EmptyTree ELSE history[Len(history)].tree

\* `git status --porcelain`: the paths that differ between HEAD, index and working tree
StatusPorcelain == { p \in TargetPaths : index[p] # HeadTree[p] \/ wt[p] # index[p] }

----------------------------------------------------------------------------
(* Pure functions of collect.ts *)

\* tag.startsWith('v0.')
StartsWithV0(tag) == tag[1] = 0

\* lines 35-38: the v0.* tags, in the order git listed them
RECURSIVE GetAllTags(_)
GetAllTags(tagList) ==
    IF tagList = <<>> THEN <<>>
    ELSE IF StartsWithV0(Head(tagList)) THEN <<Head(tagList)>> \o GetAllTags(Tail(tagList))
    ELSE GetAllTags(Tail(tagList))

\* Array.prototype.indexOf, 0-based, -1 when absent
IndexOf(s, x) ==
    IF \E k \in 1..Len(s) : s[k] = x
    THEN (CHOOSE k \in 1..Len(s) : s[k] = x /\ \A j \in 1..(k - 1) : s[j] # x) - 1
    ELSE -1

Min(a, b) == IF a <= b THEN a ELSE b

Max(a, b) == IF a >= b THEN a ELSE b

\* Array.prototype.slice(begin, end) with 0-based, possibly negative, arguments
Slice(s, begin, end) ==
    LET n  == Len(s)
        b  == IF begin < 0 THEN Max(n + begin, 0) ELSE Min(begin, n)
        e  == IF end < 0 THEN Max(n + end, 0) ELSE Min(end, n)
    IN  IF b < e THEN SubSeq(s, b + 1, e) ELSE <<>>

\* the values parseInt(..., 10) can give for --limit, and null when the flag is absent
NoLimit == [kind |-> "null", n |-> 0]

NaN == [kind |-> "NaN", n |-> 0]

Int10(n) == [kind |-> "int", n |-> n]

\* JavaScript truthiness of the parsed limit: null, NaN and 0 are falsy
LimitTruthy(l) == l.kind = "int" /\ l.n # 0

\* lines 162-165
ApplyLimit(ts, l) == IF LimitTruthy(l) THEN Slice(ts, 0, l.n) ELSE ts

\* null or '' for --start-from: both falsy
NoVersion == <<>>

\* lines 150-159, given that the version was found
ApplyStartFrom(ts, version) ==
    IF version # NoVersion THEN Slice(ts, IndexOf(ts, version), Len(ts)) ELSE ts

\* lines 108-118: the commit message, as its lines
BulletLines(names) == [k \in 1..Len(names) |-> <<"- ", names[k]>>]

CommitMessage(tag, ext, mis) ==
    << <<"Add metadata for ", tag>>, <<>>, <<"Extracted:">> >>
    \o BulletLines(ext)
    \o (IF Len(mis) > 0 THEN << <<>>, <<"Missing:">> >> \o BulletLines(mis) ELSE <<>>)

\* a message line that ends in "Add metadata for <version>"
IsMarkerLine(line, version) ==
    Len(line) = 2 /\ line[1] = "Add metadata for " /\ line[2] = version

\* `git log --oneline --grep="Add metadata for ${version}$"`: the commits with a
\* message line that the pattern matches
GrepMarker(version) ==
    { k \in 1..Len(history) :
        \E l \in 1..Len(history[k].message) : IsMarkerLine(history[k].message[l], version) }

----------------------------------------------------------------------------
(* Inputs *)

\* --start-from values: none, a v0 tag, a tag the enumeration filters out, no tag at all
StartFromArgs == { NoVersion, <<0, 2>>, <<1, 0>>, <<0, 9>> }

\* --limit values: none, not a number, and integers below, within and above the list length
LimitArgs == { NoLimit, NaN, Int10(-1), Int10(0), Int10(1), Int10(2), Int10(5) }

\* what one fs step of extractSources can do to a source file that exists
CopyOutcomes == { "ok", "unreadable", "truncated" }

----------------------------------------------------------------------------
(* State after construction: both repositories clean, nothing run yet *)

NotEnumerated == << <<"undefined">> >>

Init ==
    /\ gemini \in GeminiRepos
    /\ extPos = Main
    /\ history = <<>>
    /\ index = EmptyTree
    /\ wt = EmptyTree
    /\ pc = "idle"
    /\ startFromVersion = NoVersion
    /\ limit = NoLimit
    /\ allTags = NotEnumerated
    /\ tags = <<>>
    /\ i = 0
    /\ extracted = <<>>
    /\ missing = <<>>
    /\ console = ""
    /\ exitCode = 0
    /\ returnCalls = 0
    /\ runs = 0
    /\ faults = 0

----------------------------------------------------------------------------
(* main, lines 131-165: arguments, enumeration, start-from filter, limit *)

\* line 168: the loop test, before the first iteration and after each i++
LoopTest(k, ts) == IF k <= Len(ts) THEN "isVersionProcessed" ELSE "returnToMain"

\* process.exit(1), from line 155 and from the handler at lines 209-212
ProcessExit(line) ==
    /\ pc' = "exited"
    /\ exitCode' = 1
    /\ console' = line

\* the start-from filter without the test of lines 153-156: slice(-1)
StartFromFilter_NoExit(found, version) == ApplyStartFrom(found, version)

\* lines 151-159: the list after the start-from filter, or <<"exit">> for process.exit(1)
StartFromFilter(found, version) ==
    IF version # NoVersion /\ IndexOf(found, version) = -1
    THEN <<"exit">>
    ELSE ApplyStartFrom(found, version)

MainStart ==
    /\ pc \in {"idle", "done", "exited"}
    /\ runs < MaxRuns
    /\ runs' = runs + 1
    /\ \E version \in StartFromArgs, l \in LimitArgs :
        /\ startFromVersion' = version
        /\ limit' = l
        /\ returnCalls' = 0
        /\ extracted' = <<>>
        /\ missing' = <<>>
        /\ UNCHANGED <<gemini, extPos, history, index, wt>>
        /\ \/ \* getAllTags rejects: main rejects, the handler exits with 1
              /\ faults < MaxFaults
              /\ faults' = faults + 1
              /\ allTags' = NotEnumerated
              /\ tags' = <<>>
              /\ i' = 0
              /\ ProcessExit("Fatal error")
           \/ /\ faults' = faults
              /\ allTags' = GetAllTags(gemini.tagList)
              /\ LET filtered == StartFromFilter(allTags', version) IN
                 IF filtered = <<"exit">>
                 THEN /\ tags' = allTags'
                      /\ i' = 0
                      /\ ProcessExit("Version not found")
                 ELSE /\ tags' = ApplyLimit(filtered, l)
                      /\ i' = 1
                      /\ pc' = LoopTest(1, tags')
                      /\ console' = "Found tags"
                      /\ exitCode' = 0

----------------------------------------------------------------------------
(* The per-tag loop, lines 168-201 *)

\* i++ and the loop test
Continue ==
    /\ i' = i + 1
    /\ pc' = LoopTest(i + 1, tags)

\* a per-tag error that reaches the handler of main: no catch inside the loop
CatchTagError_Rethrow ==
    /\ i' = i
    /\ ProcessExit("Fatal error")

\* a per-tag error that ends the loop: the try block around the whole loop
CatchTagError_Break ==
    /\ console' = "Error processing"
    /\ exitCode' = exitCode
    /\ i' = Len(tags) + 1
    /\ pc' = "returnToMain"

\* lines 197-200: the catch of the per-tag try block
CatchTagError ==
    /\ console' = "Error processing"
    /\ exitCode' = exitCode
    /\ Continue

\* isVersionProcessed, lines 41-51; queryOk is whether git log exited with 0
IsVersionProcessedResult(version, queryOk) ==
    IF queryOk THEN GrepMarker(version) # {} ELSE FALSE

\* lines 170-177
IsVersionProcessed ==
    /\ pc = "isVersionProcessed"
    /\ \E queryOk \in BOOLEAN :
        \* git log fails in a repository without commits; elsewhere a failure is a fault
        /\ history = <<>> => ~queryOk
        /\ (history # <<>> /\ ~queryOk) => faults < MaxFaults
        /\ faults' = IF history # <<>> /\ ~queryOk THEN faults + 1 ELSE faults
        /\ IF IsVersionProcessedResult(tags[i], queryOk)
           THEN /\ console' = "Skipping"
                /\ Continue
           ELSE /\ console' = "Processing"
                /\ pc' = "checkoutTag"
                /\ i' = i
    /\ UNCHANGED <<gemini, extPos, history, index, wt, startFromVersion, limit, allTags,
                   tags, extracted, missing, exitCode, returnCalls, runs>>

\* checkoutTag, lines 53-57 and 181
CheckoutTag ==
    /\ pc = "checkoutTag"
    /\ \/ /\ extPos' = Detached(tags[i])
          /\ pc' = "extractSources"
          /\ UNCHANGED <<i, console, exitCode, faults>>
       \/ \* git checkout fails: the position stays, the catch block runs
          /\ faults < MaxFaults
          /\ faults' = faults + 1
          /\ extPos' = extPos
          /\ CatchTagError
    /\ UNCHANGED <<gemini, history, index, wt, startFromVersion, limit, allTags, tags,
                   extracted, missing, returnCalls, runs>>

\* a writeFile that leaves the destination as it was
WriteFile_Skip(tree, targetPath, content) == tree

\* line 80: fs.writeFile
WriteFile(tree, targetPath, content) == [tree EXCEPT ![targetPath] = content]

\* lines 69-85 for the files k..Len(SOURCE_FILES): r is the result so far
RECURSIVE ExtractFrom(_, _, _, _)
ExtractFrom(k, source, outcome, r) ==
    IF k > Len(SOURCE_FILES) THEN r
    ELSE LET file    == SOURCE_FILES[k]
             content == source[file.sourcePath]
         IN  IF content # "absent" /\ outcome[k] = "ok"
             THEN ExtractFrom(k + 1, source, outcome,
                      [r EXCEPT !.tree = WriteFile(r.tree, file.targetPath, content),
                                !.extracted = Append(r.extracted, file.name)])
             ELSE IF content # "absent" /\ outcome[k] = "truncated"
             THEN ExtractFrom(k + 1, source, outcome,
                      [r EXCEPT !.tree = WriteFile(r.tree, file.targetPath, "truncated"),
                                !.missing = Append(r.missing, file.name)])
             ELSE ExtractFrom(k + 1, source, outcome,
                      [r EXCEPT !.missing = Append(r.missing, file.name)])

\* fs steps that failed although the source file exists
FailedCopies(source, outcome) ==
    Cardinality({ k \in 1..Len(SOURCE_FILES) :
                    source[SOURCE_FILES[k].sourcePath] # "absent" /\ outcome[k] # "ok" })

\* extractSources, lines 65-88 and 184-191
ExtractSources ==
    /\ pc = "extractSources"
    /\ \E outcome \in [1..Len(SOURCE_FILES) -> CopyOutcomes] :
        LET source == CheckedOutTree(extPos)
            r      == ExtractFrom(1, source, outcome,
                                  [tree |-> wt, extracted |-> <<>>, missing |-> <<>>])
        IN  /\ \A k \in 1..Len(SOURCE_FILES) :
                   source[SOURCE_FILES[k].sourcePath] = "absent" => outcome[k] = "ok"
            /\ faults + FailedCopies(source, outcome) <= MaxFaults
            /\ faults' = faults + FailedCopies(source, outcome)
            /\ wt' = r.tree
            /\ extracted' = r.extracted
            /\ missing' = r.missing
    /\ pc' = "commitChanges"
    /\ console' = "Extraction reported"
    /\ UNCHANGED <<gemini, extPos, history, index, startFromVersion, limit, allTags, tags,
                   i, exitCode, returnCalls, runs>>

\* commitChanges without the early return of lines 97-100
HasChanges_Always == TRUE

\* line 97: the status output is not blank
HasChanges == StatusPorcelain # {}

\* `git commit -m message` on the staged tree
GitCommit(tag, staged) ==
    Append(history, [message |-> CommitMessage(tag, extracted, missing), tree |-> staged])

\* commitChanges, lines 90-129 and 194-196
CommitChanges ==
    /\ pc = "commitChanges"
    /\ \/ \* git status fails
          /\ faults < MaxFaults
          /\ faults' = faults + 1
          /\ console' = "Failed to commit"
          /\ UNCHANGED <<history, index>>
       \/ /\ ~HasChanges
          /\ console' = "No changes to commit"
          /\ UNCHANGED <<history, index, faults>>
       \/ \* git add fails
          /\ HasChanges
          /\ faults < MaxFaults
          /\ faults' = faults + 1
          /\ console' = "Failed to commit"
          /\ UNCHANGED <<history, index>>
       \/ \* git commit fails after git add
          /\ HasChanges
          /\ faults < MaxFaults
          /\ faults' = faults + 1
          /\ index' = wt
          /\ console' = "Failed to commit"
          /\ UNCHANGED history
       \/ \* nothing is staged after git add: git commit exits with 1
          /\ HasChanges
          /\ wt = HeadTree
          /\ index' = wt
          /\ console' = "Failed to commit"
          /\ UNCHANGED <<history, faults>>
       \/ /\ HasChanges
          /\ wt # HeadTree
          /\ index' = wt
          /\ history' = GitCommit(tags[i], wt)
          /\ console' = "Committed changes"
          /\ UNCHANGED faults
    /\ Continue
    /\ UNCHANGED <<gemini, extPos, wt, startFromVersion, limit, allTags, tags, extracted,
                   missing, exitCode, returnCalls, runs>>

----------------------------------------------------------------------------
(* After the loop, lines 203-207 *)

\* returnToMain, lines 59-63 and 204-206
ReturnToMain ==
    /\ pc = "returnToMain"
    /\ returnCalls' = returnCalls + 1
    /\ \/ /\ extPos' = Main
          /\ pc' = "done"
          /\ console' = "Collection complete"
          /\ UNCHANGED <<exitCode, faults>>
       \/ \* git checkout main fails: main rejects, the handler exits with 1
          /\ faults < MaxFaults
          /\ faults' = faults + 1
          /\ extPos' = extPos
          /\ ProcessExit("Fatal error")
    /\ UNCHANGED <<gemini, history, index, wt, startFromVersion, limit, allTags, tags, i,
                   extracted, missing, runs>>

----------------------------------------------------------------------------

RunStep == IsVersionProcessed \/ CheckoutTag \/ ExtractSources \/ CommitChanges \/ ReturnToMain

Next == MainStart \/ RunStep

Spec == Init /\ [][Next]_vars

\* every awaited command returns, so a started run takes its next step
FairSpec == Spec /\ WF_vars(RunStep)

----------------------------------------------------------------------------
(* Vocabulary of the properties *)

InLoop == pc \in {"isVersionProcessed", "checkoutTag", "extractSources", "commitChanges"}

\* the run got past tag enumeration and start-tag resolution
PastSetup == i >= 1

\* the tags whose iteration the loop has started in this run
Submitted == SubSeq(tags, 1, Min(i, Len(tags)))

\* the tracking repository holds a commit whose first message line is the marker of t
FirstLineMarked(t) ==
    \E k \in 1..Len(history) : IsMarkerLine(history[k].message[1], t)

\* --start-from names a tag that the enumeration did not list
StartFromAbsent ==
    /\ allTags # NotEnumerated
    /\ startFromVersion # NoVersion
    /\ IndexOf(allTags, startFromVersion) = -1

\* the last step was commitChanges
CommitReported == console \in {"No changes to commit", "Committed changes", "Failed to commit"}

----------------------------------------------------------------------------
(* C1: with --limit=N the loop is given at most min(N, |T|) tags, T being the
   list left by the start-from filter, and it is given them in T's order.
   Stated for the counts N >= 0, N = 0 included. *)
C1_LimitCapsSubmittedTags ==
    (PastSetup /\ limit.kind = "int" /\ limit.n >= 0) =>
        LET remaining == ApplyStartFrom(allTags, startFromVersion) IN
        /\ Len(Submitted) <= Min(limit.n, Len(remaining))
        /\ Submitted = SubSeq(remaining, 1, Len(Submitted))

(* C2: the iteration of a tag that already has a commit with its marker as first
   message line is a no-op: its only step is the skip, which leaves the history,
   the index, the working tree and the checkout position as they were. *)
C2_MarkedTagIsNoOp ==
    [][ (InLoop /\ FirstLineMarked(tags[i])) =>
            /\ pc = "isVersionProcessed"
            /\ console' = "Skipping"
            /\ i' = i + 1
            /\ UNCHANGED <<extPos, history, index, wt>> ]_vars

(* C3: a run that got past the setup calls returnToMain exactly once, after the
   last iteration and before completion is reported, whichever tags failed; the
   loop always gets there; if the call succeeds the checkout is on main. *)
C3_ReturnToMainOnce ==
    /\ [](PastSetup =>
            /\ InLoop => returnCalls = 0 /\ i <= Len(tags)
            /\ pc = "returnToMain" => returnCalls = 0 /\ i = Len(tags) + 1
            /\ pc \in {"done", "exited"} => returnCalls = 1 /\ i = Len(tags) + 1
            /\ console = "Collection complete" => pc = "done"
            /\ pc = "done" => extPos = Main /\ console = "Collection complete")
    /\ ((PastSetup /\ InLoop) ~> (returnCalls = 1))

\* a run with three tags, one of which failed, has finished
C3_Witness ==
    /\ pc = "done"
    /\ runs = 1
    /\ faults >= 1
    /\ Len(tags) = 3
    /\ returnCalls = 1

(* C4: a --start-from that names no enumerated tag ends the run at once with
   exit code 1: no step of the run touches either repository, and the loop and
   returnToMain are never entered. *)
C4_UnknownStartFromExits ==
    [][ StartFromAbsent' =>
            /\ pc' = "exited"
            /\ exitCode' = 1
            /\ console' = "Version not found"
            /\ returnCalls' = 0
            /\ UNCHANGED <<extPos, history, index, wt>> ]_vars

\* a later run against a tracking repository with commits exits on an unknown tag
C4_Witness ==
    /\ StartFromAbsent
    /\ pc = "exited"
    /\ exitCode = 1
    /\ history # <<>>

(* C5: the history never holds two commits with the marker of the same tag. *)
C5_AtMostOneMarkerPerTag ==
    \A t \in Range(gemini.tagList) :
        Cardinality({ k \in 1..Len(history) : IsMarkerLine(history[k].message[1], t) }) <= 1

C7_CommitOnlyOnChanges ==
    [][ /\ history' # history =>
            /\ pc = "commitChanges"
            /\ wt # HeadTree
            /\ Len(history') = Len(history) + 1
        /\ (pc = "commitChanges" /\ StatusPorcelain = {} /\ faults' = faults) =>
            /\ history' = history
            /\ index' = index
            /\ console' = "No changes to commit"
        /\ (/\ pc = "commitChanges"
            /\ wt = HeadTree
            /\ \A p \in SourcePaths : gemini.at[tags[i]][p] = "absent") =>
            history' = history ]_vars

\* commitChanges found nothing to commit for a tag without sources, after earlier commits
C7_Witness ==
    /\ console = "No changes to commit"
    /\ history # <<>>
    /\ i >= 2
    /\ \A p \in SourcePaths : gemini.at[tags[i - 1]][p] = "absent"

(* C8: a checkout failure ends the iteration of its tag only: nothing is
   extracted, staged or committed in that step, the loop goes on with the next
   tag, and every iteration runs ledger check, checkout, extraction and commit in
   that order, one tag after the other in list order. *)
C8_CheckoutFailureSkipsOneTag ==
    [][ /\ (pc = "checkoutTag" /\ console' = "Error processing") =>
            /\ UNCHANGED <<history, index, wt, tags>>
            /\ i' = i + 1
            /\ pc' = IF i + 1 <= Len(tags) THEN "isVersionProcessed" ELSE "returnToMain"
        /\ (InLoop /\ i' # i) =>
            /\ i' = i + 1
            /\ tags' = tags
            /\ pc' = IF i + 1 <= Len(tags) THEN "isVersionProcessed" ELSE "returnToMain"
        /\ (InLoop /\ i' = i /\ pc' # pc) =>
            /\ tags' = tags
            /\ <<pc, pc'>> \in { <<"isVersionProcessed", "checkoutTag">>,
                                 <<"checkoutTag", "extractSources">>,
                                 <<"extractSources", "commitChanges">> } ]_vars

\* the checkout of the first tag failed and the loop is at the second tag's ledger check
C8_Witness ==
    /\ console = "Error processing"
    /\ pc = "isVersionProcessed"
    /\ i = 2
    /\ wt = HeadTree

(* C9: a failed commit for tag t is swallowed, the loop goes on, the history is
   as before, and no commit carries t's marker, so that the ledger check of the
   next run does not skip t. *)
C9_FailedCommitIsRetried ==
    [][ (pc = "commitChanges" /\ console' = "Failed to commit") =>
            /\ i' = i + 1
            /\ pc' = LoopTest(i + 1, tags)
            /\ history' = history
            /\ ~IsVersionProcessedResult(tags[i], TRUE) ]_vars

\* the labels a commit message lists under "Extracted:"
ListedExtracted(message) ==
    { message[l][2] :
        l \in { l \in 4..Len(message) :
                  /\ Len(message[l]) = 2
                  /\ message[l][1] = "- "
                  /\ \A j \in 1..l : ~(Len(message[j]) = 1 /\ message[j][1] = "Missing:") } }

(* C10: a commit with the marker of t differs from its parent only in
   destinations listed under "Extracted:", and each of them holds the source
   content at t. Torn writes are left aside: a destination that a failed
   writeFile truncated is not counted. *)
C10_CommitRecordsOnlyItsTag ==
    \A k \in 1..Len(history) :
        LET commit == history[k]
            parent == IF k = 1 THEN EmptyTree ELSE history[k - 1].tree
            tag    == commit.message[1][2]
        IN  \A f \in Range(SOURCE_FILES) :
                (/\ commit.tree[f.targetPath] # parent[f.targetPath]
                 /\ commit.tree[f.targetPath] # "truncated") =>
                    /\ f.name \in ListedExtracted(commit.message)
                    /\ commit.tree[f.targetPath] = gemini.at[tag][f.sourcePath]

====
